---- MODULE Spec2Model ----
(***************************************************************************)
(* Model of the CVE synchronization engine of cve/utils.py, its two        *)
(* triggers (the periodic job of cve/apps.py and the update view of        *)
(* cve/views.py), the upstream feed and the document store.                *)
(*                                                                         *)
(* Granularity: one action per stretch of code between two suspension      *)
(* points (await) of a coroutine: a coroutine runs from one await to the   *)
(* next without interleaving.  The admissibility checks of one page        *)
(* (prepare_bulk_operations) run synchronously after the page response     *)
(* and are one step; the batch write runs in an executor thread and is a   *)
(* second step, so other coroutines may run between the two.  The end of   *)
(* the pagination loop and the return of an invocation are kept as steps   *)
(* of their own, so that the state they leave can be examined.             *)
(*                                                                         *)
(* Dates are day numbers.  Every parseable date string is taken to carry   *)
(* the same UTC offset.  fetch_data is modelled for the outcomes it        *)
(* handles: a 200 response, a non-200 response, an aiohttp.ClientError.    *)
(*                                                                         *)
(* Specifications: Spec (the whole system), SpecSync and SpecLive          *)
(* (synchronize_cve_data, the latter under a fair event loop), SpecFetch   *)
(* and SpecFeed (fetch_and_store_cve_data against any upstream and against *)
(* one serving the slices of a record list), SpecClean and SpecFilter      *)
(* (one call of clean_cve_data, of fetch_filtered_cve_data).               *)
(***************************************************************************)
EXTENDS Integers, Sequences, FiniteSets, TLC

\* ------------------------------------------------------------------ bounds
\* page size used by the model's runs (results_per_page; the code's default is 2000)
PageSize == 3
\* longest record list of an upstream that serves slices of one list
MaxFeed == 4
\* largest totalResults the upstream reports
MaxTotal == 7
\* number of invocations (job firings, direct calls, update requests) in a run of the model
MaxRuns == 3
\* the clock runs from day 0 to day MaxNow in steps of TickDays
MaxNow == 130
TickDays == 130

\* ------------------------------------------------------- program constants
\* None (utils.py: last_sync_timestamp = None, the default of the window arguments)
None == -1
\* a date string datetime.fromisoformat rejects
BadDate == -2
\* total_results = float("inf")
Inf == 1000000
\* timedelta(days=120)
MaxWindowDays == 120
\* response.status == 200
HttpOk == 200
\* some non-200 status
HttpError == 500
\* no status: session.get raised aiohttp.ClientError
ClientError == 0

\* ------------------------------------------------------------- processes
\* "job": the scheduler's periodic call of synchronize_cve_data (no arguments)
\* "caller": a direct call of synchronize_cve_data with any arguments
\* "req1": a request to the update endpoint (UpdateCveDataView.get)
SyncProcs == {"job", "caller"}
ViewProcs == {"req1"}
Procs == SyncProcs \cup ViewProcs
NoProc == "none"

\* ---------------------------------------------------------------- records
\* A raw cve object: its id ("" stands for a missing or empty id) and its
\* published field, a list of the pieces of the string around the letter T.
NoId == ""
Ids == {"a", "b"}
Absent == <<"absent">>
PyNone == <<"None">>
Stamp1 == <<"2024-01-05", "T", "10:00:00Z">>
Stamp2 == <<"2024-02-07", "T", "11:00:00Z">>
RawRecords ==
  {[id |-> "a", published |-> Stamp1],
   [id |-> "b", published |-> Stamp1],
   [id |-> NoId, published |-> Stamp1]}

\* values of a date field other than a timestamp: a string without the
\* letter T, the empty string
NotADate == <<"not-a-date">>
EmptyString == <<>>
DateValues == {Absent, PyNone, Stamp1, Stamp2, NotADate, EmptyString}
\* the dicts clean_cve_data is called with
CleanInputs ==
  {[id |-> i, published |-> p, lastModified |-> l] :
     i \in {"a", NoId}, p \in DateValues, l \in DateValues}

\* A stored document as fetch_filtered_cve_data sees it: its id, its
\* lastModified (a date-only string after clean_cve_data, given as <<day>>;
\* an ISO timestamp is <<day, hour>>, so that the order of the sequences is
\* the order of the strings), and its cvssMetricV2 / cvssMetricV3 base
\* scores in tenths (NoScore: the document has no such metric).
NoScore == -1
FilterDocs ==
  {[id |-> "a", lastModified |-> <<0>>, v2 |-> 75, v3 |-> NoScore],
   [id |-> "b", lastModified |-> <<-1>>, v2 |-> NoScore, v3 |-> 75],
   [id |-> "a", lastModified |-> <<-2>>, v2 |-> 74, v3 |-> 76],
   [id |-> "b", lastModified |-> <<0>>, v2 |-> 0, v3 |-> NoScore]}
\* the base_score argument: None, a float, or the string of a request
\* parameter; tenths is its value times ten
NoBaseScore == [kind |-> "None", tenths |-> 0]
BaseScores ==
  {NoBaseScore} \cup {[kind |-> k, tenths |-> t] : k \in {"float", "str"}, t \in {0, 75}}
\* the cve_id argument ("" stands for None and for the empty string), the
\* last_modified_days argument, the hour of the clock at the call
CveIdArgs == {"", "a", "b"}
LastModifiedDays == {None, 0, 1}
ClockHours == {0, 10}

\* the sequences over S of length 0..n
RECURSIVE SeqsUpTo(_, _)
SeqsUpTo(S, n) ==
  IF n = 0 THEN {<<>>}
  ELSE LET shorter == SeqsUpTo(S, n - 1)
       IN shorter \cup {Append(s, x) : s \in {t \in shorter : Len(t) = n - 1}, x \in S}

\* every page of at most PageSize records
Pages == SeqsUpTo(RawRecords, PageSize)

\* the pages on which no id occurs twice
DistinctPages ==
  {v \in Pages : \A i, j \in 1..Len(v) : i # j /\ v[i].id # NoId => v[i].id # v[j].id}

\* three pages: an empty one, one record, two records
FewPages ==
  {<<>>,
   <<[id |-> "a", published |-> Stamp1]>>,
   <<[id |-> "a", published |-> Stamp2], [id |-> "b", published |-> Stamp1]>>}

\* what session.get can produce for a page request: a 200 response with a
\* totalResults of ts and a page of ps, a non-200 response, a ClientError
Responses(ts, ps) ==
  {[status |-> HttpOk, totalResults |-> t, vulnerabilities |-> v] : t \in ts, v \in ps}
    \cup {[status |-> s, totalResults |-> 0, vulnerabilities |-> <<>>] :
            s \in {HttpError, ClientError}}

\* the upstream of the whole-system specification: few pages, a totalResults
\* that ends the loop or lets it go on
FewResponses == Responses({0, MaxTotal}, FewPages)
\* the upstream of the store specifications: every page, every totalResults
PageResponses == Responses(0..MaxTotal, Pages)
DistinctResponses == Responses(0..MaxTotal, DistinctPages)

\* the response of an upstream that holds the record list list to a page
\* request with startIndex si: the records [si, si + PageSize) of the list
\* and the length of the list as totalResults
FeedResponse(list, si) ==
  [status |-> HttpOk, totalResults |-> Len(list),
   vulnerabilities |-> SubSeq(list, si + 1,
                              IF si + PageSize < Len(list) THEN si + PageSize ELSE Len(list))]

\* what session.get can produce for the metadata request: a timestamp, or a
\* body without the key (timestamp = None)
MetaResponses(now) ==
  {[status |-> HttpOk, timestamp |-> ts] : ts \in {now, None}}
    \cup {[status |-> s, timestamp |-> None] : s \in {HttpError, ClientError}}

\* the windows a direct caller passes: none, one of exactly 120 days, one of
\* 121 days, one with an unparseable date, one with the end date missing
NoWindow == [start |-> None, end |-> None]
Windows ==
  {NoWindow,
   [start |-> 0, end |-> 120],
   [start |-> 0, end |-> 121],
   [start |-> BadDate, end |-> 120],
   [start |-> 0, end |-> None]}

\* The collection is declared in cve/models.py: it may or may not carry a
\* unique index on id; both are considered.
UniqueIndexChoices == BOOLEAN

VARIABLES
  cve_collection,      \* the store: the sequence of documents, in insertion order
  uniqueIndex,         \* whether the collection has a unique index on id
  last_sync_timestamp, \* the watermark
  sync_lock,           \* the process holding sync_lock, or NoProc
  waiters,             \* the processes queued on sync_lock
  now,                 \* the clock (days)
  runs,                \* invocations so far
  pc,                  \* each process's position
  args,                \* the arguments each invocation was called with
  last_mod,            \* last_mod_start_date / last_mod_end_date as used by the run
  start_index,         \* fetch_and_store_cve_data's start_index
  total_results,       \* fetch_and_store_cve_data's total_results
  bulk_operations,     \* the prepared batch of the page being processed
  calls,               \* upstream calls issued by the invocation: pages, metadata
  pageLog,             \* the responses of the invocation's page calls (record counts)
  seen,                \* the records with an id on the pages the invocation received
  params,              \* the window parameters of the invocation's last page call
  metaData,            \* the data of the invocation's metadata call
  outcome,             \* what the invocation logged, what it raised to its caller,
                       \* whether a failed page call cut its loop short
  feed,                \* the record list of an upstream that serves slices of one list
  fcall                \* a call of a function of the module: its arguments and its result

vars == <<cve_collection, uniqueIndex, last_sync_timestamp, sync_lock, waiters, now,
          runs, pc, args, last_mod, start_index, total_results, bulk_operations,
          calls, pageLog, seen, params, metaData, outcome, feed, fcall>>

NoCalls == [page |-> 0, meta |-> 0]
NoData == [status |-> ClientError, timestamp |-> None]
NoOutcome == [logged |-> "", raised |-> "", cut |-> FALSE]
\* no call of a function is recorded
NoCall == [fn |-> ""]
\* the entry of pageLog for a failed page call
Failure == -1

\* ---------------------------------------------------------- pure functions

\* Python truthiness of an optional date string
Truthy(d) == d # None

\* fetch_data: the JSON body on status 200, None otherwise
fetch_data(resp) == IF resp.status = HttpOk THEN resp ELSE NoData
IsData(data) == data.status = HttpOk

\* str.split("T")[0] on a string given as its pieces around "T"
RECURSIVE SplitT0(_)
SplitT0(s) ==
  IF s = <<>> \/ Head(s) = "T" THEN <<>> ELSE <<Head(s)>> \o SplitT0(Tail(s))

\* date_fields = ["published", "lastModified"]
date_fields == {"published", "lastModified"}

\* clean_cve_data: each date field that is present is cut at its first "T";
\* a value that is no string (None) makes split raise and becomes None; an
\* absent field stays absent; every other field is left alone
clean_cve_data(cve) ==
  [f \in DOMAIN cve |->
     IF f \notin date_fields THEN cve[f]
     ELSE IF cve[f] = Absent THEN Absent
     ELSE IF cve[f] = PyNone THEN PyNone
     ELSE SplitT0(cve[f])]

\* the order of two strings (sequences of comparable pieces): a proper
\* prefix is smaller
RECURSIVE StrLeq(_, _)
StrLeq(s, t) ==
  IF s = <<>> THEN TRUE
  ELSE IF t = <<>> THEN FALSE
  ELSE IF Head(s) # Head(t) THEN Head(s) < Head(t)
  ELSE StrLeq(Tail(s), Tail(t))

\* datetime.isoformat(): the date, the letter T, the time
isoformat(ts) == <<ts.day, ts.hour>>

\* the truth value of the base_score argument: None and 0.0 are falsy, a
\* non-empty string is truthy
ScoreTruthy(base_score) ==
  \/ base_score.kind = "str"
  \/ base_score.kind = "float" /\ base_score.tenths # 0

\* fetch_filtered_cve_data: the query is built from the arguments that pass
\* their tests and find(query) returns the documents that match it; clock is
\* datetime.now(timezone.utc)
fetch_filtered_cve_data(store, cve_id, base_score, last_modified_days, clock) ==
  LET end_date == clock
      start_date == [day |-> clock.day - last_modified_days, hour |-> clock.hour]
      Match(doc) ==
        /\ cve_id # "" => doc.id = cve_id
        /\ ScoreTruthy(base_score) =>
              doc.v2 = base_score.tenths \/ doc.v3 = base_score.tenths
        /\ last_modified_days # None =>
              /\ StrLeq(isoformat(start_date), doc.lastModified)
              /\ StrLeq(doc.lastModified, isoformat(end_date))
  IN SelectSeq(store, Match)

\* cve_collection.count_documents({"id": cve_id}, limit=1) > 0
InStore(store, cve_id) == \E i \in 1..Len(store) : store[i].id = cve_id

\* an admissibility check that does not look at the id being empty
is_valid_cve_AnyId(store, cve) == ~InStore(store, cve.id)

\* an admissibility check that does not look into the store
is_valid_cve_NoLookup(store, cve) == cve.id # NoId

is_valid_cve(store, cve) ==
  IF cve.id = NoId THEN FALSE
  ELSE IF InStore(store, cve.id) THEN FALSE
  ELSE TRUE

RECURSIVE prepare_bulk_operations(_, _)
prepare_bulk_operations(store, vulnerabilities) ==
  IF vulnerabilities = <<>> THEN <<>>
  ELSE LET cve == Head(vulnerabilities)
           rest == prepare_bulk_operations(store, Tail(vulnerabilities))
       IN IF is_valid_cve(store, cve) THEN <<clean_cve_data(cve)>> \o rest ELSE rest

\* a write that replaces the stored document of the same id (an upsert)
RECURSIVE bulk_write_Upsert(_, _, _)
bulk_write_Upsert(store, unique, ops) ==
  IF ops = <<>> THEN store
  ELSE LET op == Head(ops)
           replaced == [i \in 1..Len(store) |->
                          IF store[i].id = op.id THEN op ELSE store[i]]
       IN IF InStore(store, op.id)
          THEN bulk_write_Upsert(replaced, unique, Tail(ops))
          ELSE bulk_write_Upsert(Append(store, op), unique, Tail(ops))

\* cve_collection.bulk_write(ops): an ordered bulk write. The inserts are
\* applied in order; with a unique index on id the first duplicate key
\* stops the write (BulkWriteError, caught and logged by the caller) and
\* the operations after it are not applied.
RECURSIVE bulk_write(_, _, _)
bulk_write(store, unique, ops) ==
  IF ops = <<>> THEN store
  ELSE IF unique /\ InStore(store, Head(ops).id) THEN store
  ELSE bulk_write(Append(store, Head(ops)), unique, Tail(ops))

execute_bulk_operations(store, unique, ops) ==
  IF ops = <<>> THEN store ELSE bulk_write(store, unique, ops)

\* the window check of synchronize_cve_data: "format" when a date does not
\* parse, "range" when the window is longer than 120 days, "" when it passes
\* (also when the two dates are not both given: the check is skipped)
ValidateWindow(s, e) ==
  IF ~(Truthy(s) /\ Truthy(e)) THEN ""
  ELSE IF s = BadDate \/ e = BadDate THEN "format"
  ELSE IF e - s > MaxWindowDays THEN "range"
  ELSE ""

\* a run that never derives its window from the watermark
EffectiveWindow_Full(s, e, watermark, clock) == [start |-> s, end |-> e]

\* the window the run uses: the watermark and the current time when there is
\* a watermark and no complete window was given
EffectiveWindow(s, e, watermark, clock) ==
  IF Truthy(watermark) /\ ~(Truthy(s) /\ Truthy(e))
  THEN [start |-> watermark, end |-> clock]
  ELSE [start |-> s, end |-> e]

\* the window parameters of a page request: present only when both are given
RequestParams(w) ==
  IF Truthy(w.start) /\ Truthy(w.end) THEN w ELSE NoWindow

\* ------------------------------------------------------------------- Init
\* the module's globals and the locals and bookkeeping of the processes
\* before any invocation
InitProcs ==
  /\ last_sync_timestamp = None
  /\ sync_lock = NoProc
  /\ waiters = <<>>
  /\ now = 0
  /\ runs = 0
  /\ pc = [p \in Procs |-> "idle"]
  /\ args = [p \in Procs |-> NoWindow]
  /\ last_mod = [p \in Procs |-> NoWindow]
  /\ start_index = [p \in Procs |-> 0]
  /\ total_results = [p \in Procs |-> Inf]
  /\ bulk_operations = [p \in Procs |-> <<>>]
  /\ calls = [p \in Procs |-> NoCalls]
  /\ pageLog = [p \in Procs |-> <<>>]
  /\ seen = [p \in Procs |-> {}]
  /\ params = [p \in Procs |-> NoWindow]
  /\ metaData = [p \in Procs |-> NoData]
  /\ outcome = [p \in Procs |-> NoOutcome]

\* the module is loaded and the collection is empty
Init ==
  /\ cve_collection = <<>>
  /\ uniqueIndex \in UniqueIndexChoices
  /\ InitProcs
  /\ feed = <<>>
  /\ fcall = NoCall

\* -------------------------------------------------------------- actions

\* the locals and the bookkeeping of a process that is not running
Reset(p) ==
  /\ args' = [args EXCEPT ![p] = NoWindow]
  /\ last_mod' = [last_mod EXCEPT ![p] = NoWindow]
  /\ start_index' = [start_index EXCEPT ![p] = 0]
  /\ total_results' = [total_results EXCEPT ![p] = Inf]
  /\ bulk_operations' = [bulk_operations EXCEPT ![p] = <<>>]
  /\ calls' = [calls EXCEPT ![p] = NoCalls]
  /\ pageLog' = [pageLog EXCEPT ![p] = <<>>]
  /\ seen' = [seen EXCEPT ![p] = {}]
  /\ params' = [params EXCEPT ![p] = NoWindow]
  /\ metaData' = [metaData EXCEPT ![p] = NoData]
  /\ outcome' = [outcome EXCEPT ![p] = NoOutcome]

\* the arguments a trigger passes: the scheduler's job passes none
ArgsOf(p) ==
  IF p = "job" THEN {NoWindow} ELSE Windows

\* the records of a page that carry an id
PageRecords(v) == {v[i] : i \in {j \in 1..Len(v) : v[j].id # NoId}}

\* a loop that asks for the page again instead of ending
AfterLoop_Retry(p) == "await_page"

\* where a process goes when its pagination loop ends
AfterLoop(p) == IF p \in SyncProcs THEN "meta" ELSE "respond"

\* a loop test that never ends the loop
LoopContinues_Always(si, tr) == TRUE

\* a loop test that is off by one
LoopContinues_Inclusive(si, tr) == si <= tr

\* while start_index < total_results
LoopContinues(si, tr) == si < tr

\* fetch_and_store_cve_data(last_mod_start_date=w.start, last_mod_end_date=w.end)
\* from its entry to its first page request (its first loop test, 0 < inf, passes)
FetchAndStore(p, w) ==
  /\ last_mod' = [last_mod EXCEPT ![p] = w]
  /\ start_index' = [start_index EXCEPT ![p] = 0]
  /\ total_results' = [total_results EXCEPT ![p] = Inf]
  /\ params' = [params EXCEPT ![p] = RequestParams(w)]
  /\ calls' = [calls EXCEPT ![p].page = @ + 1]
  /\ pc' = [pc EXCEPT ![p] = "await_page"]

\* fetch_and_store_cve_data after a page is processed: start_index advances by
\* the page size and the loop test decides between the next page request and
\* the end of the loop; tr is the totalResults of the page just processed
NextPage(p, tr) ==
  /\ start_index' = [start_index EXCEPT ![p] = @ + PageSize]
  /\ total_results' = [total_results EXCEPT ![p] = tr]
  /\ IF LoopContinues(start_index[p] + PageSize, tr)
     THEN /\ params' = [params EXCEPT ![p] = RequestParams(last_mod[p])]
          /\ calls' = [calls EXCEPT ![p].page = @ + 1]
          /\ pc' = [pc EXCEPT ![p] = "await_page"]
     ELSE /\ pc' = [pc EXCEPT ![p] = AfterLoop(p)]
          /\ UNCHANGED <<params, calls>>

\* synchronize_cve_data inside the lock, from the window check to the first
\* page request: an invalid window is logged and the function returns
\* normally; otherwise the window of the run is settled and
\* fetch_and_store_cve_data is called. w: the arguments of the invocation.
Body(p, w) ==
  LET err == ValidateWindow(w.start, w.end)
  IN IF err # ""
     THEN /\ outcome' = [outcome EXCEPT ![p].logged = err]
          /\ pc' = [pc EXCEPT ![p] = "exit"]
          /\ UNCHANGED <<last_mod, start_index, total_results, params, calls>>
     ELSE /\ FetchAndStore(p, EffectiveWindow(w.start, w.end, last_sync_timestamp, now))
          /\ UNCHANGED outcome

\* a lock that never makes a caller wait
CanAcquire_NoWait(lock, ws) == TRUE

\* asyncio.Lock.acquire returns at once on a lock that is free and has no waiter
CanAcquire(lock, ws) == lock = NoProc /\ ws = <<>>

\* synchronize_cve_data(last_mod_start_date, last_mod_end_date) is called.
\* async with sync_lock: asyncio.Lock.acquire takes a free lock nobody waits
\* for, and queues the caller otherwise.
Synchronize(p) ==
  /\ p \in SyncProcs
  /\ pc[p] = "idle"
  /\ runs < MaxRuns
  /\ runs' = runs + 1
  /\ \E w \in ArgsOf(p) :
       /\ args' = [args EXCEPT ![p] = w]
       /\ IF CanAcquire(sync_lock, waiters)
          THEN /\ sync_lock' = p
               /\ Body(p, w)
               /\ UNCHANGED waiters
          ELSE /\ waiters' = Append(waiters, p)
               /\ pc' = [pc EXCEPT ![p] = "blocked"]
               /\ UNCHANGED <<sync_lock, last_mod, start_index, total_results, params,
                              calls, outcome>>
  /\ UNCHANGED <<feed, fcall, cve_collection, uniqueIndex, last_sync_timestamp, now,
                 bulk_operations, pageLog, seen, metaData>>

\* the first waiter of a released lock resumes, takes it and runs the body
Resume(p) ==
  /\ pc[p] = "blocked"
  /\ sync_lock = NoProc
  /\ waiters # <<>> /\ Head(waiters) = p
  /\ sync_lock' = p
  /\ waiters' = Tail(waiters)
  /\ Body(p, args[p])
  /\ UNCHANGED <<feed, fcall, cve_collection, uniqueIndex, last_sync_timestamp, now, runs, args,
                 bulk_operations, pageLog, seen, metaData>>

\* UpdateCveDataView.get: the request calls fetch_and_store_cve_data()
UpdateRequest(p) ==
  /\ p \in ViewProcs
  /\ pc[p] = "idle"
  /\ runs < MaxRuns
  /\ runs' = runs + 1
  /\ FetchAndStore(p, NoWindow)
  /\ UNCHANGED <<feed, fcall, cve_collection, uniqueIndex, last_sync_timestamp, sync_lock, waiters,
                 now, args, bulk_operations, pageLog, seen, metaData, outcome>>

\* fetch_and_store_cve_data: the page response arrives; a failure or an empty
\* page ends the loop; otherwise the batch of the page is prepared and, when
\* it is not empty, handed to the executor
PageResponse(p, upstream) ==
  /\ pc[p] = "await_page"
  /\ \E resp \in upstream :
       LET data == fetch_data(resp)
           ops == prepare_bulk_operations(cve_collection, data.vulnerabilities)
       IN IF ~IsData(data)
          THEN /\ pageLog' = [pageLog EXCEPT ![p] = Append(@, Failure)]
               /\ pc' = [pc EXCEPT ![p] = AfterLoop(p)]
               /\ UNCHANGED <<total_results, bulk_operations, start_index, seen,
                              params, calls>>
          ELSE /\ pageLog' = [pageLog EXCEPT ![p] = Append(@, Len(data.vulnerabilities))]
               /\ seen' = [seen EXCEPT ![p] = @ \cup PageRecords(data.vulnerabilities)]
               /\ IF data.vulnerabilities = <<>>
                  THEN /\ total_results' = [total_results EXCEPT ![p] = data.totalResults]
                       /\ pc' = [pc EXCEPT ![p] = AfterLoop(p)]
                       /\ UNCHANGED <<bulk_operations, start_index, params, calls>>
                  ELSE IF ops # <<>>
                  THEN /\ total_results' = [total_results EXCEPT ![p] = data.totalResults]
                       /\ bulk_operations' = [bulk_operations EXCEPT ![p] = ops]
                       /\ pc' = [pc EXCEPT ![p] = "write"]
                       /\ UNCHANGED <<start_index, params, calls>>
                  ELSE /\ NextPage(p, data.totalResults)
                       /\ UNCHANGED bulk_operations
  /\ UNCHANGED <<feed, fcall, cve_collection, uniqueIndex, last_sync_timestamp, sync_lock, waiters,
                 now, runs, args, last_mod, metaData, outcome>>

\* fetch_and_store_cve_data: the executor runs execute_bulk_operations, then
\* the loop goes on
BulkWrite(p) ==
  /\ pc[p] = "write"
  /\ cve_collection' =
       execute_bulk_operations(cve_collection, uniqueIndex, bulk_operations[p])
  /\ bulk_operations' = [bulk_operations EXCEPT ![p] = <<>>]
  /\ NextPage(p, total_results[p])
  /\ UNCHANGED <<feed, fcall, uniqueIndex, last_sync_timestamp, sync_lock, waiters, now,
                 runs, args, last_mod, pageLog, seen, metaData, outcome>>

\* synchronize_cve_data: fetch_and_store_cve_data has returned (its locals are
\* gone); the metadata request is issued
MetaRequest(p) ==
  /\ pc[p] = "meta"
  /\ calls' = [calls EXCEPT ![p].meta = @ + 1]
  /\ pc' = [pc EXCEPT ![p] = "await_meta"]
  /\ start_index' = [start_index EXCEPT ![p] = 0]
  /\ total_results' = [total_results EXCEPT ![p] = Inf]
  /\ pageLog' = [pageLog EXCEPT ![p] = <<>>]
  /\ seen' = [seen EXCEPT ![p] = {}]
  /\ outcome' = [outcome EXCEPT ![p].cut =
         pageLog[p] # <<>> /\ pageLog[p][Len(pageLog[p])] = Failure]
  /\ UNCHANGED <<feed, fcall, cve_collection, uniqueIndex, last_sync_timestamp, sync_lock, waiters,
                 now, runs, args, last_mod, bulk_operations, params, metaData>>

\* a metadata response that leaves the watermark alone
NewWatermark_Keep(data, old) == old

\* if data: last_sync_timestamp = data.get("timestamp")
NewWatermark(data, old) == IF IsData(data) THEN data.timestamp ELSE old

\* synchronize_cve_data: the metadata response; data.get("timestamp") becomes
\* the watermark when there is data
MetaResponse(p) ==
  /\ pc[p] = "await_meta"
  /\ \E resp \in MetaResponses(now) :
       LET data == fetch_data(resp)
       IN /\ metaData' = [metaData EXCEPT ![p] = data]
          /\ last_sync_timestamp' = NewWatermark(data, last_sync_timestamp)
  /\ pc' = [pc EXCEPT ![p] = "exit"]
  /\ UNCHANGED <<feed, fcall, cve_collection, uniqueIndex, sync_lock, waiters, now, runs, args,
                 last_mod, start_index, total_results, bulk_operations, calls,
                 pageLog, seen, params, outcome>>

\* a return that leaves the lock held
Release_KeepsLock(p) ==
  /\ pc[p] = "exit"
  /\ sync_lock' = sync_lock
  /\ pc' = [pc EXCEPT ![p] = "idle"]
  /\ Reset(p)
  /\ UNCHANGED <<feed, fcall, cve_collection, uniqueIndex, last_sync_timestamp, waiters,
                 now, runs>>

\* synchronize_cve_data returns: the lock is released on the way out
Release(p) ==
  /\ pc[p] = "exit"
  /\ sync_lock' = NoProc
  /\ pc' = [pc EXCEPT ![p] = "idle"]
  /\ Reset(p)
  /\ UNCHANGED <<feed, fcall, cve_collection, uniqueIndex, last_sync_timestamp, waiters, now, runs>>

\* UpdateCveDataView.get returns its JsonResponse
Respond(p) ==
  /\ pc[p] = "respond"
  /\ pc' = [pc EXCEPT ![p] = "idle"]
  /\ Reset(p)
  /\ UNCHANGED <<feed, fcall, cve_collection, uniqueIndex, last_sync_timestamp, sync_lock, waiters,
                 now, runs>>

\* time passes
Tick ==
  /\ now + TickDays <= MaxNow
  /\ now' = now + TickDays
  /\ UNCHANGED <<feed, fcall, cve_collection, uniqueIndex, last_sync_timestamp, sync_lock, waiters,
                 runs, pc, args, last_mod, start_index, total_results,
                 bulk_operations, calls, pageLog, seen, params, metaData, outcome>>

\* clean_cve_data(cve_data) is called: the dict is changed in place and returned
CleanCall ==
  /\ fcall.fn = "clean_cve_data" /\ ~fcall.done
  /\ fcall' = [fcall EXCEPT !.cve_data = clean_cve_data(@), !.done = TRUE]
  /\ UNCHANGED <<feed, cve_collection, uniqueIndex, last_sync_timestamp, sync_lock,
                 waiters, now, runs, pc, args, last_mod, start_index, total_results,
                 bulk_operations, calls, pageLog, seen, params, metaData, outcome>>

\* fetch_filtered_cve_data(cve_id, base_score, last_modified_days) is called
FilterCall ==
  /\ fcall.fn = "fetch_filtered_cve_data" /\ ~fcall.done
  /\ fcall' = [fcall EXCEPT
                 !.results = fetch_filtered_cve_data(cve_collection, fcall.cve_id,
                               fcall.base_score, fcall.last_modified_days,
                               [day |-> now, hour |-> fcall.hour]),
                 !.done = TRUE]
  /\ UNCHANGED <<feed, cve_collection, uniqueIndex, last_sync_timestamp, sync_lock,
                 waiters, now, runs, pc, args, last_mod, start_index, total_results,
                 bulk_operations, calls, pageLog, seen, params, metaData, outcome>>

\* the whole system: the scheduler's job, a direct caller and update requests
Next ==
  \/ \E p \in Procs : Synchronize(p)
  \/ \E p \in Procs : Resume(p)
  \/ \E p \in Procs : UpdateRequest(p)
  \/ \E p \in Procs : PageResponse(p, FewResponses)
  \/ \E p \in Procs : BulkWrite(p)
  \/ \E p \in Procs : MetaRequest(p)
  \/ \E p \in Procs : MetaResponse(p)
  \/ \E p \in Procs : Release(p)
  \/ \E p \in Procs : Respond(p)
  \/ Tick

Spec == Init /\ [][Next]_vars

\* synchronize_cve_data alone, called again and again by the scheduler's job,
\* against an upstream whose pages never carry an id twice
NextSync ==
  \/ Synchronize("job")
  \/ PageResponse("job", DistinctResponses)
  \/ BulkWrite("job")
  \/ MetaRequest("job")
  \/ MetaResponse("job")
  \/ Release("job")

SpecSync == Init /\ [][NextSync]_vars

\* fetch_and_store_cve_data alone, called by update requests one after the
\* other, against any upstream
NextFetch ==
  \/ UpdateRequest("req1")
  \/ PageResponse("req1", PageResponses)
  \/ BulkWrite("req1")
  \/ Respond("req1")

SpecFetch == Init /\ [][NextFetch]_vars

\* the steps of an invocation of synchronize_cve_data after its call: the
\* event loop resumes it when the lock is handed to it, when its upstream
\* call returns and when the executor has written its batch
RunStep(p) ==
  \/ Resume(p)
  \/ PageResponse(p, FewResponses)
  \/ BulkWrite(p)
  \/ MetaRequest(p)
  \/ MetaResponse(p)
  \/ Release(p)

\* synchronize_cve_data called by the job and by a direct caller, under an
\* event loop that resumes every coroutine that can go on and an upstream
\* whose calls return
NextLive ==
  \/ \E p \in SyncProcs : Synchronize(p)
  \/ \E p \in SyncProcs : Resume(p)
  \/ \E p \in SyncProcs : PageResponse(p, FewResponses)
  \/ \E p \in SyncProcs : BulkWrite(p)
  \/ \E p \in SyncProcs : MetaRequest(p)
  \/ \E p \in SyncProcs : MetaResponse(p)
  \/ \E p \in SyncProcs : Release(p)

SpecLive == Init /\ [][NextLive]_vars /\ \A p \in SyncProcs : WF_vars(RunStep(p))

\* fetch_and_store_cve_data without a window, called by update requests one
\* after the other, against an upstream that serves the slices of one
\* record list and never fails
InitFeed ==
  /\ cve_collection = <<>>
  /\ uniqueIndex \in UniqueIndexChoices
  /\ InitProcs
  /\ feed \in SeqsUpTo(RawRecords, MaxFeed)
  /\ fcall = NoCall

NextFeed ==
  \/ UpdateRequest("req1")
  \/ PageResponse("req1", {FeedResponse(feed, start_index["req1"])})
  \/ BulkWrite("req1")
  \/ Respond("req1")

SpecFeed == InitFeed /\ [][NextFeed]_vars

\* clean_cve_data alone: one call on any of the dicts
InitClean ==
  /\ cve_collection = <<>>
  /\ uniqueIndex \in UniqueIndexChoices
  /\ InitProcs
  /\ feed = <<>>
  /\ fcall \in {[fn |-> "clean_cve_data", arg |-> c, cve_data |-> c, done |-> FALSE] :
                  c \in CleanInputs}

NextClean == CleanCall

SpecClean == InitClean /\ [][NextClean]_vars

\* fetch_filtered_cve_data alone: one call, with any arguments, on a store
\* of up to two documents (with distinct ids when the index is unique)
InitFilter ==
  /\ uniqueIndex \in UniqueIndexChoices
  /\ cve_collection \in
       {st \in SeqsUpTo(FilterDocs, 2) :
          uniqueIndex /\ Len(st) = 2 => st[1].id # st[2].id}
  /\ InitProcs
  /\ feed = <<>>
  /\ fcall \in {[fn |-> "fetch_filtered_cve_data", cve_id |-> i, base_score |-> b,
                   last_modified_days |-> n, hour |-> h, results |-> <<>>,
                   done |-> FALSE] :
                  i \in CveIdArgs, b \in BaseScores, n \in LastModifiedDays,
                  h \in ClockHours}

NextFilter == FilterCall

SpecFilter == InitFilter /\ [][NextFilter]_vars

\* ------------------------------------------------------------ vocabulary

\* the ids of the stored documents
StoreIds == {cve_collection[i].id : i \in 1..Len(cve_collection)}
\* how many stored documents carry the id
CountOf(cve_id) == Cardinality({i \in 1..Len(cve_collection) : cve_collection[i].id = cve_id})
\* p is inside its pagination loop (a page request is out, or a batch is being written)
InFetchLoop(p) == pc[p] \in {"await_page", "write"}
\* p is inside the body of async with sync_lock
InCritical(p) == pc[p] \in {"await_page", "write", "meta", "await_meta", "exit"}
\* p's pagination loop has just ended
LoopEnded(p) == pc[p] = AfterLoop(p)
\* the last entry of p's page log
LastPage(p) == pageLog[p][Len(pageLog[p])]
\* the ids p received in this invocation
SeenIds(p) == {r.id : r \in seen[p]}
\* the error the window check finds in the arguments of p's invocation
WindowError(p) == ValidateWindow(args[p].start, args[p].end)

\* ------------------------------------------------------------------- C1
\* C1: two invocations of synchronize_cve_data are never inside the body of
\* async with sync_lock (fetch loop plus metadata call) at the same time: an
\* invocation is in it only while it holds the lock, so the second one issues
\* its first page request only after the first has left.
C1_SynchronizeRunsDoNotOverlap ==
  /\ \A p \in SyncProcs : InCritical(p) => sync_lock = p
  /\ \A p \in SyncProcs : pc[p] = "blocked" => calls[p].page = 0
  /\ \A p, q \in SyncProcs : p # q => ~(InCritical(p) /\ InCritical(q))

\* the job is writing a page while the direct caller waits for the lock
C1_Witness ==
  /\ pc["job"] = "write" /\ calls["job"].page >= 1
  /\ pc["caller"] = "blocked" /\ calls["caller"].page = 0

\* ------------------------------------------------------------------- C2
\* C2: over all triggers (the job, direct calls, update requests) at most one
\* pagination loop runs at any time, and a process in its pagination loop
\* holds sync_lock.
C2_OneFetchLoopAtATime ==
  /\ \A p, q \in Procs : p # q => ~(InFetchLoop(p) /\ InFetchLoop(q))
  /\ \A p \in Procs : InFetchLoop(p) => sync_lock = p

\* ------------------------------------------------------------------- C3
\* C3: whatever pages the upstream serves to synchronize_cve_data, with ids
\* recurring on different pages and in different runs, no id is stored twice.
C3_AtMostOneRecordPerId == \A cve_id \in Ids : CountOf(cve_id) <= 1

\* a later run receives, on its first page, a record whose id an earlier run
\* stored: only the other record of the page is in the batch
C3_Witness ==
  /\ runs >= 2
  /\ pc["job"] = "write" /\ start_index["job"] = 0
  /\ SeenIds("job") = {"a", "b"}
  /\ CountOf("a") = 1
  /\ Len(bulk_operations["job"]) = 1 /\ bulk_operations["job"][1].id = "b"

\* ------------------------------------------------------------------- C4
\* the error the claim has synchronize report for a window error
ErrorFor(err) ==
  IF err = "range" THEN "WindowTooLargeError"
  ELSE IF err = "format" THEN "InvalidDateFormatError"
  ELSE ""

\* C4: an invocation whose window fails the check (longer than 120 days, or
\* a date that does not parse) has issued no page request when it returns and
\* has reported WindowTooLargeError, respectively InvalidDateFormatError, to
\* its caller.
C4_InvalidWindowIsReported ==
  \A p \in SyncProcs :
    pc[p] = "exit" /\ WindowError(p) # "" =>
      /\ calls[p].page = 0
      /\ outcome[p].raised = ErrorFor(WindowError(p))

\* ------------------------------------------------------------------- C5
\* C5: once a watermark is set, an invocation of synchronize_cve_data without
\* a window issues its page requests with lastModStartDate = the watermark and
\* lastModEndDate = the time of its start, never without window parameters.
C5_SecondRunIsIncremental ==
  \A p \in SyncProcs :
    InFetchLoop(p) /\ args[p] = NoWindow /\ Truthy(last_sync_timestamp) =>
      /\ params[p].start = last_sync_timestamp
      /\ Truthy(params[p].end) /\ params[p].end <= now
      /\ params[p] = last_mod[p]

\* the job runs again, 130 days after the metadata call that set the watermark
C5_Witness ==
  /\ runs >= 2
  /\ pc["job"] = "await_page" /\ calls["job"].page = 1
  /\ last_sync_timestamp = 0 /\ now = TickDays
  /\ params["job"] = [start |-> 0, end |-> TickDays]

\* ------------------------------------------------------------------- C6
\* C6 (as stated): a run that passed the window check has issued exactly one
\* metadata call when it returns, that call returned a timestamp, and the
\* watermark equals it.
C6_WatermarkIsFeedTimestamp ==
  \A p \in SyncProcs :
    pc[p] = "exit" /\ WindowError(p) = "" =>
      /\ calls[p].meta = 1
      /\ IsData(metaData[p])
      /\ last_sync_timestamp = metaData[p].timestamp

\* C6 (amended): a run that passed the window check, whether its loop ended
\* normally or was cut short by a failed page call, reaches its return with
\* exactly one metadata call issued; when that call returned data, the
\* watermark is then the timestamp of the data (absent when the data carries
\* none), and when the call failed the watermark is what it was before.
C6_WatermarkFollowsMetadata ==
  [][\A p \in SyncProcs :
       /\ pc[p] # "exit" /\ pc'[p] = "exit"
       /\ ValidateWindow(args'[p].start, args'[p].end) = ""
       =>
         /\ pc[p] = "await_meta"
         /\ calls'[p].meta = 1
         /\ IF IsData(metaData'[p])
            THEN last_sync_timestamp' = metaData'[p].timestamp
            ELSE last_sync_timestamp' = last_sync_timestamp]_vars

\* a run cut short by a failed page call returns with the watermark set to
\* the timestamp of its metadata call
C6_Witness ==
  /\ pc["job"] = "exit" /\ outcome["job"].cut
  /\ calls["job"].meta = 1
  /\ IsData(metaData["job"]) /\ metaData["job"].timestamp = TickDays
  /\ last_sync_timestamp = TickDays

\* ------------------------------------------------------------------- C7
\* C7: an update request runs synchronize_cve_data(): while it is in its
\* pagination loop it holds sync_lock, and it has issued the metadata call
\* that advances the watermark when it is about to respond.
C7_UpdateRunsSynchronize ==
  \A p \in ViewProcs :
    /\ InFetchLoop(p) => sync_lock = p
    /\ pc[p] = "respond" => calls[p].meta = 1

\* ------------------------------------------------------------------- C8
\* the page log of an upstream that returns two pages of 2 records and then
\* an empty page, as far as a run gets with it
RECURSIVE IsPrefix(_, _)
IsPrefix(s, t) ==
  \/ s = <<>>
  \/ /\ t # <<>> /\ Head(s) = Head(t) /\ IsPrefix(Tail(s), Tail(t))
TwoPagesThenEmpty == <<2, 2, 0>>

C9_OnlyConflictingRecordsSkipped ==
  [][\A p \in Procs :
       pc[p] = "write" /\ pc'[p] # "write" =>
         \A i \in 1..Len(bulk_operations[p]) :
           InStore(cve_collection', bulk_operations[p][i].id)]_vars

\* ------------------------------------------------------------------ C10
\* C10: a stored document is never changed or removed: every step leaves each
\* document of the store in place and identical.
C10_StoreIsAppendOnly ==
  [][/\ Len(cve_collection') >= Len(cve_collection)
     /\ \A i \in 1..Len(cve_collection) : cve_collection'[i] = cve_collection[i]]_vars

\* a later run received the stored id "a" with another published date and
\* wrote the other record of that page; the document of the first run is
\* still the first of the store
C10_Witness ==
  /\ runs >= 2
  /\ LoopEnded("job")
  /\ [id |-> "a", published |-> Stamp2] \in seen["job"]
  /\ Len(cve_collection) = 2
  /\ cve_collection[1] = [id |-> "a", published |-> <<"2024-01-05">>]
  /\ cve_collection[2].id = "b"

\* ------------------------------------------------------------------ C11
\* C11: in every state of the store, is_valid_cve accepts a raw record exactly
\* when the record carries a non-empty id and no stored document carries
\* that id; no prepared batch holds an operation for a record without an id,
\* and no stored document is without an id.
C11_AdmissibleIffIdAndNotStored ==
  /\ \A cve \in RawRecords :
       is_valid_cve(cve_collection, cve) <=> (cve.id # NoId /\ CountOf(cve.id) = 0)
  /\ \A p \in Procs : \A i \in 1..Len(bulk_operations[p]) :
       bulk_operations[p][i].id # NoId
  /\ CountOf(NoId) = 0

\* "a" is stored; the first page of a later run had three records, among
\* them the ids "a" and "b", and its batch is the one insert of "b"
C11_Witness ==
  /\ runs >= 2
  /\ CountOf("a") = 1 /\ CountOf("b") = 0
  /\ pc["req1"] = "write" /\ pageLog["req1"] = <<3>>
  /\ SeenIds("req1") = {"a", "b"}
  /\ Len(bulk_operations["req1"]) = 1 /\ bulk_operations["req1"][1].id = "b"

\* ------------------------------------------------------------------ C12
\* a timestamp: a date, the letter T, a time
IsTimestamp(v) == Len(v) = 3 /\ v[2] = "T"

\* C12: after clean_cve_data, each date field that was present holds the
\* date part of its timestamp when it was a timestamp and None when it was
\* anything else (such as "not-a-date"); every other field is as it was.
C12_DatesCutOrNone ==
  fcall.fn = "clean_cve_data" /\ fcall.done =>
    /\ DOMAIN fcall.cve_data = DOMAIN fcall.arg
    /\ \A f \in DOMAIN fcall.arg :
         IF f \in date_fields
         THEN IF fcall.arg[f] = Absent THEN fcall.cve_data[f] = Absent
              ELSE IF IsTimestamp(fcall.arg[f])
                   THEN fcall.cve_data[f] = <<fcall.arg[f][1]>>
                   ELSE fcall.cve_data[f] = PyNone
         ELSE fcall.cve_data[f] = fcall.arg[f]

\* ------------------------------------------------------------------ C13
\* the hours between the epoch of the model and a time
Hours(day, hour) == 24 * day + hour

\* C13: the result of fetch_filtered_cve_data is the sequence of the stored
\* documents that pass every filter given: the id equals cve_id; the v2 or
\* the v3 base score equals base_score; lastModified (a date, taken at its
\* first instant) is in [now - N days, now]. A filter not given (None)
\* restricts nothing. The store is as it was.
C13_FilterReturnsExactlyTheMatches ==
  fcall.fn = "fetch_filtered_cve_data" /\ fcall.done =>
    LET Wanted(doc) ==
          /\ fcall.cve_id # "" => doc.id = fcall.cve_id
          /\ fcall.base_score.kind # "None" =>
                doc.v2 = fcall.base_score.tenths \/ doc.v3 = fcall.base_score.tenths
          /\ fcall.last_modified_days # None =>
                /\ Hours(doc.lastModified[1], 0) >=
                     Hours(now - fcall.last_modified_days, fcall.hour)
                /\ Hours(doc.lastModified[1], 0) <= Hours(now, fcall.hour)
    IN fcall.results = SelectSeq(cve_collection, Wanted)

\* ------------------------------------------------------------------ C14
\* C14: the step in which a page call fails ends the pagination loop: it
\* issues no request, raises nothing to the caller and leaves the store as
\* it is; from then on to its return the run issues no page request and
\* raises nothing, and every stored document stays in place.
C14_FailedPageEndsLoopKeepsStore ==
  [][\A p \in Procs :
       /\ /\ pc[p] = "await_page"
          /\ Len(pageLog'[p]) = Len(pageLog[p]) + 1
          /\ pageLog'[p][Len(pageLog'[p])] = Failure
          => /\ pc'[p] \in {"meta", "respond"}
             /\ calls'[p] = calls[p]
             /\ outcome'[p].raised = ""
             /\ cve_collection' = cve_collection
       /\ pageLog[p] # <<>> /\ LastPage(p) = Failure
          => /\ pc'[p] # "await_page"
             /\ calls'[p].page <= calls[p].page
             /\ outcome'[p].raised = ""
             /\ Len(cve_collection') >= Len(cve_collection)
             /\ \A i \in 1..Len(cve_collection) : cve_collection'[i] = cve_collection[i]]_vars

\* the first page of the first run was written, the call for the second
\* page failed: the loop has ended after two calls and the store holds the
\* records of the first page
C14_Witness ==
  /\ runs = 1
  /\ LoopEnded("req1") /\ pageLog["req1"] = <<3, Failure>>
  /\ calls["req1"].page = 2
  /\ SeenIds("req1") = {"a", "b"} /\ StoreIds = {"a", "b"}

\* ------------------------------------------------------------------ C15
\* C15: the lock is held exactly while an invocation is inside the body
\* (Idle, Running, Idle); a call that finds the lock taken is queued, not
\* turned away; a queued call gets into the body; whoever holds the lock
\* gives it up, on the early return of a failed window check as well.
C15_CallsWaitEnterAndRelease ==
  /\ [](\A p \in SyncProcs : sync_lock = p <=> InCritical(p))
  /\ [][\A p \in SyncProcs :
          pc[p] = "idle" /\ pc'[p] # "idle" /\ sync_lock # NoProc =>
            /\ pc'[p] = "blocked"
            /\ waiters' = Append(waiters, p)]_vars
  /\ \A p \in SyncProcs : pc[p] = "blocked" ~> InCritical(p)
  /\ \A p \in SyncProcs : sync_lock = p ~> sync_lock # p

\* the job waits for the lock while the direct caller, whose window failed
\* the check, is on its early return
C15_Witness ==
  /\ pc["job"] = "blocked" /\ waiters = <<"job">>
  /\ pc["caller"] = "exit" /\ WindowError("caller") # ""
  /\ sync_lock = "caller"

\* ------------------------------------------------------------------ C16
\* C16: a page request that carries lastModStartDate and lastModEndDate
\* carries a window of at most 120 days, whether the caller gave the window
\* or the run derived it from the watermark.
C16_RequestedWindowAtMost120Days ==
  \A p \in Procs :
    InFetchLoop(p) /\ Truthy(params[p].start) /\ Truthy(params[p].end) =>
      params[p].end - params[p].start <= MaxWindowDays

\* ------------------------------------------------------------------ C17
\* C17: runs of fetch_and_store_cve_data, one after the other, on pages that
\* may carry the same id several times leave every stored id stored once.
C17_OneRecordPerIdWithinPage ==
  \A cve_id \in StoreIds : CountOf(cve_id) = 1

\* ------------------------------------------------------------------ C18
\* C18: when a run without a window, none of whose page calls failed, has
\* ended its loop against an upstream serving the slices of one record list,
\* every id of that list is the id of a stored document.
C18_EveryUpstreamIdIsStored ==
  \A p \in ViewProcs :
    /\ LoopEnded(p) /\ params[p] = NoWindow
    /\ \A k \in 1..Len(pageLog[p]) : pageLog[p][k] # Failure
    =>
      \A i \in 1..Len(feed) : feed[i].id # NoId => InStore(cve_collection, feed[i].id)

\* ------------------------------------------------------------------ C19
\* the most page calls a run can make against an upstream whose totalResults
\* is at most MaxTotal: the k-th call (k > 1) needs (k-1)*PageSize < totalResults
MaxPageCalls == (MaxTotal - 1) \div PageSize + 1

\* C19: a run makes at most MaxPageCalls page calls, each but the first at a
\* startIndex below the totalResults last reported; a run in its pagination
\* loop gets to its metadata call, and a run that made its metadata call
\* gives up the lock.
C19_PaginationTerminates ==
  /\ [](\A p \in SyncProcs :
          /\ calls[p].page <= MaxPageCalls
          /\ pc[p] = "await_page" /\ calls[p].page > 1 =>
                start_index[p] < total_results[p] /\ total_results[p] <= MaxTotal)
  /\ \A p \in SyncProcs : InFetchLoop(p) ~> calls[p].meta = 1
  /\ \A p \in SyncProcs : calls[p].meta = 1 ~> (pc[p] = "idle" /\ sync_lock # p)

\* a run that made as many page calls as the upstream's totalResults allows
\* has made its metadata call and is about to release the lock
C19_Witness ==
  /\ pc["job"] = "exit" /\ sync_lock = "job"
  /\ calls["job"].page = MaxPageCalls /\ MaxPageCalls >= 2
  /\ calls["job"].meta = 1

\* ------------------------------------------------------------------ C20
\* C20: the watermark changes only in a step of the invocation that holds
\* the lock, and a watermark that is set is still set after every step.
C20_WatermarkStaysSet ==
  [][/\ last_sync_timestamp' # last_sync_timestamp =>
          \E p \in SyncProcs : sync_lock = p /\ InCritical(p)
     /\ Truthy(last_sync_timestamp) => Truthy(last_sync_timestamp')]_vars

====
